---- MODULE Spec2Model ----
(***************************************************************************)
(* KACLS proof-of-concept service (src/app.js): an Express application     *)
(* with a CORS/pre-flight middleware, a JSON body parser, three GET        *)
(* discovery routes and the POST /wrap and POST /unwrap handlers, which    *)
(* search the request body for a base64-looking string (pickBase64),       *)
(* decode it (b64urlToBuf) and hand it to the Cloud KMS client.            *)
(***************************************************************************)
EXTENDS Integers, Sequences, FiniteSets, TLC

(***************************************************************************)
(* Bounds of the model.                                                    *)
(***************************************************************************)
\* JSON values handed to pickBase64 alone have at most this many nodes.
MaxNodes == 4
\* Request bodies sent to the service have at most this many members.
MaxMembers == 1
\* Request slots (requests that can be in flight at once).
MaxReq == 2
\* Longest key string of the wrap/unwrap round trip.
MaxKeyLen == 8
\* Largest number of bytes the provider adds in front of a ciphertext.
MaxOverhead == 4

(***************************************************************************)
(* Strings are sequences of one-character strings, so that length, the     *)
(* character class and the base64 alphabet are those of the code.          *)
(***************************************************************************)
B64Std ==
  << "A","B","C","D","E","F","G","H","I","J","K","L","M","N","O","P",
     "Q","R","S","T","U","V","W","X","Y","Z","a","b","c","d","e","f",
     "g","h","i","j","k","l","m","n","o","p","q","r","s","t","u","v",
     "w","x","y","z","0","1","2","3","4","5","6","7","8","9","+","/" >>

StdChars == { B64Std[i] : i \in 1..64 }

\* The character class [A-Za-z0-9+/_-] of looksLikeB64's pattern.
B64Class == StdChars \cup {"-", "_"}

\* Shortest string looksLikeB64 accepts.
MinB64Len == 8

(***************************************************************************)
(* JSON values: [t, s, e] with t the type, s the characters of a string    *)
(* and e the members of an object (in insertion order) or the elements of  *)
(* an array (in index order), each member a record [k, v].                 *)
(***************************************************************************)
JStr(s)  == [t |-> "str",  s |-> s,    e |-> <<>>]
JNull    == [t |-> "null", s |-> <<>>, e |-> <<>>]
JNum     == [t |-> "num",  s |-> <<>>, e |-> <<>>]
JObj(e)  == [t |-> "obj",  s |-> <<>>, e |-> e]
JArr(e)  == [t |-> "arr",  s |-> <<>>, e |-> e]
\* What JavaScript yields for a property that is not there.
Undefined == [t |-> "undefined", s |-> <<>>, e |-> <<>>]

Member(k, v) == [k |-> k, v |-> v]

\* `k in body` for the property names the handlers use (none is an array
\* index or "length", so an array has none of them).
HasKey(body, k) ==
  body.t = "obj" /\ \E i \in 1..Len(body.e) : body.e[i].k = k

\* body[k]
Get(body, k) ==
  IF HasKey(body, k)
  THEN body.e[CHOOSE i \in 1..Len(body.e) : body.e[i].k = k].v
  ELSE Undefined

\* typeof v === "object" (true of null as well)
TypeofObject(v) == v.t \in {"obj", "arr", "null"}

\* Object.keys(body)
ObjectKeys(body) ==
  IF body.t = "obj" THEN [i \in 1..Len(body.e) |-> body.e[i].k]
  ELSE IF body.t = "arr" THEN [i \in 1..Len(body.e) |-> ToString(i - 1)]
  ELSE <<>>

(***************************************************************************)
(* looksLikeB64: /^[A-Za-z0-9+/_-]+=*$/ on a string of length >= 8.        *)
(***************************************************************************)
MatchesB64Pattern(s) ==
  \E n \in 1..Len(s) :
    /\ \A i \in 1..n : s[i] \in B64Class
    /\ \A i \in (n+1)..Len(s) : s[i] = "="

looksLikeB64(v) ==
  v.t = "str" /\ Len(v.s) >= MinB64Len /\ MatchesB64Pattern(v.s)

(***************************************************************************)
(* pickBase64.  The result is NoHit (null) or a hit {key, b64, path}; the  *)
(* path is the sequence of its segments.                                   *)
(***************************************************************************)
NoHit == [found |-> FALSE, key |-> "", b64 |-> Undefined, path |-> <<>>]
Hit(k, v, p) == [found |-> TRUE, key |-> k, b64 |-> v, path |-> p]
Prefixed(seg, h) == [h EXCEPT !.path = <<seg>> \o h.path]
IndexSeg(i) == "[" \o ToString(i - 1) \o "]"

RECURSIVE pickBase64(_, _, _)
RECURSIVE PreferredPass(_, _, _, _)
RECURSIVE ArrayPass(_, _, _, _)
RECURSIVE EntriesPass(_, _, _, _)

\* A pickBase64 whose preferred-name loop was left out.
PreferredPassSkipped(body, preferredKeys, enableRecursive, j) == NoHit

\* for (const k of preferredKeys) { ... }, from the j-th preferred key on
PreferredPass(body, preferredKeys, enableRecursive, j) ==
  IF j > Len(preferredKeys) THEN NoHit
  ELSE LET k == preferredKeys[j]
           v == Get(body, k)
           inner == IF HasKey(body, k) /\ TypeofObject(v)
                    THEN pickBase64(v, preferredKeys, enableRecursive)
                    ELSE NoHit
       IN  IF looksLikeB64(v) THEN Hit(k, v, <<k>>)
           ELSE IF inner.found THEN Prefixed(k, inner)
           ELSE PreferredPass(body, preferredKeys, enableRecursive, j + 1)

\* for (let i = 0; i < body.length; i++) { ... }, from the i-th element on
ArrayPass(body, preferredKeys, enableRecursive, i) ==
  IF i > Len(body.e) THEN NoHit
  ELSE LET found == pickBase64(body.e[i].v, preferredKeys, enableRecursive)
       IN  IF found.found THEN Prefixed(IndexSeg(i), found)
           ELSE ArrayPass(body, preferredKeys, enableRecursive, i + 1)

\* for (const [k, v] of Object.entries(body)) { ... }, from the i-th entry on
EntriesPass(body, preferredKeys, enableRecursive, i) ==
  IF i > Len(body.e) THEN NoHit
  ELSE LET k == body.e[i].k
           v == body.e[i].v
           found == IF v.t \in {"obj", "arr"}
                    THEN pickBase64(v, preferredKeys, enableRecursive)
                    ELSE NoHit
       IN  IF looksLikeB64(v) THEN Hit(k, v, <<k>>)
           ELSE IF found.found THEN Prefixed(k, found)
           ELSE EntriesPass(body, preferredKeys, enableRecursive, i + 1)

pickBase64(body, preferredKeys, enableRecursive) ==
  IF body.t \notin {"obj", "arr"} THEN NoHit
  ELSE LET pref == PreferredPass(body, preferredKeys, enableRecursive, 1)
       IN  IF pref.found THEN pref
           ELSE IF ~enableRecursive THEN NoHit
           ELSE IF body.t = "arr"
                THEN ArrayPass(body, preferredKeys, enableRecursive, 1)
                ELSE EntriesPass(body, preferredKeys, enableRecursive, 1)

\* const x = value; F(x): the value is computed once and then named.
Bound(value, F(_)) == CHOOSE y \in { F(x) : x \in { value } } : TRUE

(***************************************************************************)
(* Base64, as Buffer.from(s, "base64") and buf.toString("base64") compute  *)
(* it.  Bytes are numbers in 0..255.                                       *)
(***************************************************************************)
Pow2(n) == 2 ^ n

\* The six bits a base64 character stands for (both alphabets).
CharVal(c) ==
  IF c = "-" THEN 62
  ELSE IF c = "_" THEN 63
  ELSE (CHOOSE i \in 1..64 : B64Std[i] = c) - 1

\* The decoder reads up to the first "=" and skips what is in no alphabet.
UpToPad(s) ==
  LET pads == { i \in 1..Len(s) : s[i] = "=" }
  IN  IF pads = {} THEN s
      ELSE SubSeq(s, 1, (CHOOSE i \in pads : \A j \in pads : i <= j) - 1)

Sextets(s) ==
  Bound(SelectSeq(UpToPad(s), LAMBDA c : c \in B64Class),
        LAMBDA t : [i \in 1..Len(t) |-> CharVal(t[i])])

\* Buffer.from(s, "base64"): every eight bits that are complete.
Base64Decode(s) ==
  Bound(Sextets(s), LAMBDA sx :
    [i \in 1..((6 * Len(sx)) \div 8) |->
      LET p == 8 * (i - 1)
          q == (p \div 6) + 1
          o == p % 6
      IN  (sx[q] % Pow2(6 - o)) * Pow2(2 + o) + (sx[q + 1] \div Pow2(4 - o))])

\* An encoder that leaves the padding out.
Base64EncodeUnpadded(bytes) ==
  Bound(bytes, LAMBDA b :
    LET n == Len(b)
        m == (8 * n + 5) \div 6
        at(i) == IF i <= n THEN b[i] ELSE 0
    IN  [j \in 1..m |->
          LET p == 6 * (j - 1)
              q == (p \div 8) + 1
              o == p % 8
          IN  B64Std[1 + (IF o <= 2 THEN (at(q) \div Pow2(2 - o)) % 64
                          ELSE (at(q) % Pow2(8 - o)) * Pow2(o - 2)
                               + (at(q + 1) \div Pow2(10 - o)))]])

\* buf.toString("base64"): standard alphabet, padded with "=" to a multiple
\* of four characters.
Base64Encode(bytes) ==
  Bound(bytes, LAMBDA b :
    LET n == Len(b)
        m == (8 * n + 5) \div 6
        at(i) == IF i <= n THEN b[i] ELSE 0
        sextet(j) ==
          LET p == 6 * (j - 1)
              q == (p \div 8) + 1
              o == p % 8
          IN  IF o <= 2 THEN (at(q) \div Pow2(2 - o)) % 64
              ELSE (at(q) % Pow2(8 - o)) * Pow2(o - 2) + (at(q + 1) \div Pow2(10 - o))
        pad == (4 - (m % 4)) % 4
    IN  [j \in 1..(m + pad) |-> IF j <= m THEN B64Std[sextet(j) + 1] ELSE "="])

\* s.trim()
RECURSIVE TrimLeft(_)
TrimLeft(s) == IF s # <<>> /\ Head(s) = " " THEN TrimLeft(Tail(s)) ELSE s
RECURSIVE TrimRight(_)
TrimRight(s) ==
  IF s # <<>> /\ s[Len(s)] = " " THEN TrimRight(SubSeq(s, 1, Len(s) - 1)) ELSE s
Trim(s) == TrimRight(TrimLeft(s))

\* .replace(/-/g, "+").replace(/_/g, "/")
ToStdAlphabet(s) ==
  [i \in 1..Len(s) |-> IF s[i] = "-" THEN "+" ELSE IF s[i] = "_" THEN "/" ELSE s[i]]

\* while (b64.length % 4) b64 += "="
PadToFour(s) == s \o [i \in 1..((4 - (Len(s) % 4)) % 4) |-> "="]

\* b64urlToBuf: null for what is not a string; Buffer.from does not throw
\* on a string, whatever it holds.
NullBuf == [isNull |-> TRUE, bytes |-> <<>>]
b64urlToBuf(v) ==
  IF v.t # "str" THEN NullBuf
  ELSE Bound(PadToFour(ToStdAlphabet(Trim(v.s))),
             LAMBDA b64 : [isNull |-> FALSE, bytes |-> Base64Decode(b64)])

(***************************************************************************)
(* The key-management provider behind kms.encrypt and kms.decrypt: a       *)
(* deterministic one whose decrypt inverts its encrypt.  A ciphertext is   *)
(* a header of `ov` bytes followed by the plaintext, each byte shifted.    *)
(***************************************************************************)
ProviderHeader(ov) == [i \in 1..ov |-> 160 + i]
ProviderEncrypt(ov, plaintext) ==
  ProviderHeader(ov) \o [i \in 1..Len(plaintext) |-> (plaintext[i] + 1) % 256]
ProviderAccepts(ov, ciphertext) ==
  Len(ciphertext) >= ov /\ SubSeq(ciphertext, 1, ov) = ProviderHeader(ov)
ProviderDecrypt(ov, ciphertext) ==
  [i \in 1..(Len(ciphertext) - ov) |-> (ciphertext[ov + i] + 255) % 256]

\* What a failed call throws: an Error, its message a sequence of words
\* (empty for an Error without message).
NoError == [name |-> "", message |-> <<>>]
ProviderErrors(keyName) ==
  { [name |-> "Error", message |-> <<"PERMISSION_DENIED", "on", "resource", keyName>>],
    [name |-> "Error", message |-> <<"DEADLINE_EXCEEDED">>],
    [name |-> "Error", message |-> <<>>] }
InvalidCiphertext == [name |-> "Error", message |-> <<"INVALID_ARGUMENT">>]

\* String(e): "Error: message", or "Error" alone without a message.
ErrorToString(e) == IF e.message = <<>> THEN <<e.name>> ELSE <<e.name \o ":">> \o e.message
\* A detail that is the message alone.
DetailMessageOnly(e) == e.message

\* String(e?.message || e)
DetailOf(e) == IF e.message # <<>> THEN e.message ELSE ErrorToString(e)

(***************************************************************************)
(* The JSON values of a given number of nodes.  J[j] are the values of j   *)
(* nodes and A[i + 1] the sequences of values of i nodes in all.  An       *)
(* object's property names are distinct.                                   *)
(***************************************************************************)
\* The sequences of values of m nodes in all.
SeqsOfSize(J, A, m) ==
  UNION { { <<v>> \o rest : v \in J[j], rest \in A[m - j + 1] } : j \in 1..m }

InjectiveSeqs(Keys, n) ==
  { ks \in [1..n -> Keys] : \A i, j \in 1..n : ks[i] = ks[j] => i = j }

\* The objects and the arrays whose members are the sequences in Q.
ContainersOver(Q, Keys) ==
  UNION { { JObj([i \in 1..Len(q) |-> Member(ks[i], q[i])]) :
              ks \in InjectiveSeqs(Keys, Len(q)) }
          \cup { JArr([i \in 1..Len(q) |-> Member("", q[i])]) } : q \in Q }

\* What a JSON request body can be: bodyParser.json is strict, the top level
\* is an object or an array.
Containers(S) == { v \in S : v.t \in {"obj", "arr"} }

(***************************************************************************)
(* The strings of the model.                                               *)
(***************************************************************************)
\* "SGVsbG8=": standard alphabet, padded (the bytes of "Hello").
StrHello == << "S","G","V","s","b","G","8","=" >>
\* "-_-_-_-_": URL-safe alphabet.
StrUrlSafe == << "-","_","-","_","-","_","-","_" >>
\* "QUJD": base64 characters, but shorter than eight.
StrShort == << "Q","U","J","D" >>
\* "client error": holds a space, so it does not look like base64.
StrClientError == << "c","l","i","e","n","t"," ","e","r","r","o","r" >>
\* "clienterror": a reason of one word.
StrOneWord == << "c","l","i","e","n","t","e","r","r","o","r" >>

\* The preferred names of the two handlers.
WrapKeys == << "key", "key_to_wrap_b64", "keyToWrapB64", "keyToWrap",
               "dek", "plaintext_b64", "plaintext", "data" >>
UnwrapKeys == << "wrapped_key", "wrapped_key_b64", "wrappedKeyB64", "wrappedDek",
                 "ciphertext_b64", "ciphertext", "data" >>

(***************************************************************************)
(* State.                                                                  *)
(***************************************************************************)
VARIABLES
  arg,              \* the arguments of a call of pickBase64 on its own
  out,              \* [called, got]: whether the call was made, and its result
  env,              \* process.env.KMS_KEY_RESOURCE ("" when unset)
  proc,             \* "boot", "listening" or "exited"
  KMS_KEY_RESOURCE, \* the constant of that name
  overhead,         \* the provider's header length
  pc,               \* where each request is
  request,          \* each request as received
  reqBody,          \* req.body
  headers,          \* the response headers set so far
  responses,        \* the responses sent to each request, in order
  ran,              \* the middleware and handlers each request went through
  call,             \* each request's provider call
  prior             \* what the client keeps of its last successful wrap

locVars == << arg, out >>
srvVars == << env, proc, KMS_KEY_RESOURCE, overhead, pc, request, reqBody,
              headers, responses, ran, call, prior >>
vars == << arg, out, env, proc, KMS_KEY_RESOURCE, overhead, pc, request,
           reqBody, headers, responses, ran, call, prior >>

Reqs == 1..MaxReq

(***************************************************************************)
(* pickBase64 on its own: every leaf, and every object and array of at     *)
(* most MaxNodes nodes.                                                    *)
(***************************************************************************)
LocateKeys == { "key", "data", "foo" }
LocateLeaves == { JStr(StrHello), JStr(StrShort), JNull }
\* The values of 1, 2, ... nodes and the member sequences of 0, 1, ... nodes
\* in all, written out as far as MaxNodes may go (five nodes).
LocSeqs0 == { <<>> }
Loc1 == LocateLeaves \cup ContainersOver(LocSeqs0, LocateKeys)
LocSeqs1 == IF MaxNodes >= 2 THEN SeqsOfSize(<<Loc1>>, <<LocSeqs0>>, 1) ELSE {}
Loc2 == ContainersOver(LocSeqs1, LocateKeys)
LocSeqs2 == IF MaxNodes >= 3
            THEN SeqsOfSize(<<Loc1, Loc2>>, <<LocSeqs0, LocSeqs1>>, 2) ELSE {}
Loc3 == ContainersOver(LocSeqs2, LocateKeys)
LocSeqs3 == IF MaxNodes >= 4
            THEN SeqsOfSize(<<Loc1, Loc2, Loc3>>, <<LocSeqs0, LocSeqs1, LocSeqs2>>, 3)
            ELSE {}
Loc4 == IF MaxNodes >= 5 THEN ContainersOver(LocSeqs3, LocateKeys) ELSE {}
LocSeqs4 == IF MaxNodes >= 5
            THEN SeqsOfSize(<<Loc1, Loc2, Loc3, Loc4>>,
                            <<LocSeqs0, LocSeqs1, LocSeqs2, LocSeqs3>>, 4)
            ELSE {}
\* The member sequences of the containers of at most MaxNodes nodes.
LocateSeqs ==
  LET table == << LocSeqs0, LocSeqs1, LocSeqs2, LocSeqs3, LocSeqs4 >>
  IN  UNION { table[i] : i \in 1..MaxNodes }
LocateLists == { WrapKeys, UnwrapKeys, <<>> }

NotCalled == [called |-> FALSE, got |-> NoHit]

\* The service before anything happened.
NoRequest == [method |-> "", path |-> "", origin |-> [present |-> FALSE, value |-> ""],
              acrh |-> [present |-> FALSE, value |-> ""],
              payload |-> [kind |-> "none", body |-> Undefined]]
NoHeaders == [set |-> FALSE, allowOrigin |-> "", allowCredentials |-> "", vary |-> "",
              allowMethods |-> "", allowHeaders |-> "", maxAge |-> ""]
NoCall == [state |-> "none", op |-> "", input |-> <<>>, result |-> <<>>,
           error |-> NoError, count |-> 0]
NoPrior == [has |-> FALSE, key |-> <<>>, wrapped |-> <<>>]

Quiet ==
  /\ pc = [r \in Reqs |-> "idle"]
  /\ request = [r \in Reqs |-> NoRequest]
  /\ reqBody = [r \in Reqs |-> Undefined]
  /\ headers = [r \in Reqs |-> NoHeaders]
  /\ responses = [r \in Reqs |-> <<>>]
  /\ ran = [r \in Reqs |-> <<>>]
  /\ call = [r \in Reqs |-> NoCall]
  /\ prior = NoPrior

KeyName == "projects/p/locations/l/keyRings/r/cryptoKeys/k"

LocateInit ==
  /\ env = KeyName /\ proc = "boot" /\ KMS_KEY_RESOURCE = "" /\ overhead = 0
  /\ Quiet
  /\ \E q \in LocateSeqs :
       arg \in [body : ContainersOver({q}, LocateKeys) \cup LocateLeaves,
                preferredKeys : LocateLists, enableRecursive : BOOLEAN]
  /\ out = NotCalled

Locate ==
  /\ ~out.called
  /\ out' = [called |-> TRUE,
             got |-> pickBase64(arg.body, arg.preferredKeys, arg.enableRecursive)]
  /\ UNCHANGED << arg, srvVars >>

LocateNext == Locate

LocateSpec == LocateInit /\ [][LocateNext]_vars

(***************************************************************************)
(* What the claims about pickBase64 speak of.                              *)
(***************************************************************************)
Names(list) == { list[i] : i \in 1..Len(list) }
IndexIn(list, k) == CHOOSE i \in 1..Len(list) : list[i] = k
MinOf(S) == CHOOSE x \in S : \A y \in S : x <= y

\* The members, at any depth of v, whose name is in N and whose value is a
\* base64-looking string.
RECURSIVE NamedLeaves(_, _)
NamedLeaves(v, N) ==
  IF v.t \notin {"obj", "arr"} THEN {}
  ELSE UNION { (IF v.t = "obj" /\ v.e[i].k \in N /\ looksLikeB64(v.e[i].v)
                THEN { v.e[i] } ELSE {})
               \cup NamedLeaves(v.e[i].v, N) : i \in 1..Len(v.e) }

\* The property names at any depth of v.
RECURSIVE NamesIn(_)
NamesIn(v) ==
  IF v.t \notin {"obj", "arr"} THEN {}
  ELSE UNION { (IF v.t = "obj" THEN { v.e[i].k } ELSE {})
               \cup NamesIn(v.e[i].v) : i \in 1..Len(v.e) }

\* Whether a base64-looking string is the value of an object member
\* somewhere in v.
RECURSIVE HasMemberLeaf(_)
HasMemberLeaf(v) ==
  /\ v.t \in {"obj", "arr"}
  /\ \E i \in 1..Len(v.e) :
       \/ v.t = "obj" /\ looksLikeB64(v.e[i].v)
       \/ HasMemberLeaf(v.e[i].v)

\* The first base64-looking string leaf of v in depth-first order, array
\* elements in index order and object members in insertion order.
RECURSIVE FirstLeaf(_)
RECURSIVE FirstLeafFrom(_, _)
FirstLeafFrom(v, i) ==
  IF i > Len(v.e) THEN NoHit
  ELSE LET seg == IF v.t = "arr" THEN IndexSeg(i) ELSE v.e[i].k
           sub == FirstLeaf(v.e[i].v)
       IN  IF looksLikeB64(v.e[i].v) THEN Hit(v.e[i].k, v.e[i].v, <<seg>>)
           ELSE IF sub.found THEN Prefixed(seg, sub)
           ELSE FirstLeafFrom(v, i + 1)
FirstLeaf(v) == IF v.t \in {"obj", "arr"} THEN FirstLeafFrom(v, 1) ELSE NoHit

\* The places in preferredKeys of the names that hold a base64-looking
\* string at the top level of body.
DirectPlaces(body, preferredKeys) ==
  { j \in 1..Len(preferredKeys) : looksLikeB64(Get(body, preferredKeys[j])) }

\* The places before j0 of the names that hold, at the top level of body, an
\* object or array with a base64-looking string under some member.
EarlierHolders(body, preferredKeys, j0) ==
  { j \in 1..(j0 - 1) : HasMemberLeaf(Get(body, preferredKeys[j])) }

C2_FirstLeafDepthFirst ==
  LET ref == FirstLeaf(arg.body)
  IN  ( /\ out.called /\ arg.enableRecursive
        /\ arg.body.t \in {"obj", "arr"}
        /\ NamesIn(arg.body) \cap Names(arg.preferredKeys) = {} ) =>
        /\ out.got.found = ref.found
        /\ ref.found => (out.got.b64 = ref.b64 /\ out.got.path = ref.path)

(***************************************************************************)
(* The service.                                                            *)
(***************************************************************************)
Absent == [present |-> FALSE, value |-> ""]
Present(v) == [present |-> TRUE, value |-> v]
\* h || fallback, for a request header h
OrElse(h, fallback) == IF h.present /\ h.value # "" THEN h.value ELSE fallback

DefaultOrigin == "https://client-side-encryption.google.com"
DefaultAllowHeaders ==
  "Content-Type, Authorization, X-Requested-With, X-Goog-AuthAssertion, X-Goog-Api-Client, X-Client-Data"

\* The headers the CORS middleware sets.
CorsHeaders(req) ==
  [set |-> TRUE,
   allowOrigin |-> OrElse(req.origin, DefaultOrigin),
   allowCredentials |-> "true",
   vary |-> "Origin",
   allowMethods |-> "GET,POST,OPTIONS,HEAD",
   allowHeaders |-> OrElse(req.acrh, DefaultAllowHeaders),
   maxAge |-> "86400"]

\* A gate that ends OPTIONS requests only.
IsPreflightOptionsOnly(req) == req.method = "OPTIONS"

\* if (req.method === "OPTIONS" || req.method === "HEAD")
IsPreflight(req) == req.method \in {"OPTIONS", "HEAD"}

\* A response: its status, who sent it ("cors", "route" or "framework"),
\* its shape, the names of the fields of its JSON body, and their values.
Response(status, by, shape, fields) ==
  [status |-> status, by |-> by, shape |-> shape, fields |-> fields,
   error |-> "", note |-> "", b64 |-> <<>>, reason |-> Undefined,
   detail |-> <<>>, received_keys |-> <<>>, key_resource |-> ""]

Preflight == Response(204, "cors", "preflight", {})
ParseFailure == Response(400, "framework", "parse_error", {})
NotFound == Response(404, "framework", "not_found", {})
RootInfo == Response(200, "route", "root", {"ok", "tip"})
StatusInfo(keyResource) ==
  [Response(200, "route", "status",
            {"server_type", "vendor_id", "version", "operations_supported",
             "key_resource"})
   EXCEPT !.key_resource = keyResource]
WellKnown == Response(200, "route", "wellknown", {"ok", "path"})
Noop(reason) ==
  [Response(200, "route", "noop", {"ok", "note", "reason"})
   EXCEPT !.note = "noop (error envelope)", !.reason = reason]
\* A 400 that also reports the key resource.
MissingWithKeyResource(message, keys) ==
  [Response(400, "route", "missing", {"error", "received_keys"})
   EXCEPT !.error = message, !.received_keys = keys,
          !.key_resource = KMS_KEY_RESOURCE]
Missing(message, keys) ==
  [Response(400, "route", "missing", {"error", "received_keys"})
   EXCEPT !.error = message, !.received_keys = keys]
Invalid(message) ==
  [Response(400, "route", "invalid", {"error"}) EXCEPT !.error = message]
Wrapped(b64) ==
  [Response(200, "route", "wrapped", {"wrapped_key"}) EXCEPT !.b64 = b64]
Unwrapped(b64) ==
  [Response(200, "route", "unwrapped", {"key"}) EXCEPT !.b64 = b64]
Failed(tag, detail) ==
  [Response(500, "route", "failed", {"error", "detail"})
   EXCEPT !.error = tag, !.detail = detail]

\* What a handler does up to its await or to its end: the responses it
\* sends, and the provider call it makes, if any.
Replies(resp) == [send |-> <<resp>>, await |-> FALSE, op |-> "", input |-> <<>>]
Awaits(op, bytes) == [send |-> <<>>, await |-> TRUE, op |-> op, input |-> bytes]

\* A wrap handler whose no-op branch does not return.
WrapEntryFallsThrough(body) ==
  LET hasReason == Get(body, "reason").t = "str"
      missing == Missing("missing DEK (base64)", ObjectKeys(body))
  IN  Bound(pickBase64(body, WrapKeys, TRUE), LAMBDA got :
        IF ~got.found
        THEN IF hasReason
             THEN [Replies(Noop(Get(body, "reason"))) EXCEPT !.send = Append(@, missing)]
             ELSE Replies(missing)
        ELSE Bound(b64urlToBuf(got.b64), LAMBDA plaintext :
               IF plaintext.isNull THEN Replies(Invalid("invalid base64/plaintext"))
               ELSE Awaits("encrypt", plaintext.bytes)))

\* app.post("/wrap"), up to the await
WrapEntry(body) ==
  LET hasReason == Get(body, "reason").t = "str"
  IN  Bound(pickBase64(body, WrapKeys, TRUE), LAMBDA got :
        IF ~got.found
        THEN IF hasReason THEN Replies(Noop(Get(body, "reason")))
             ELSE Replies(Missing("missing DEK (base64)", ObjectKeys(body)))
        ELSE Bound(b64urlToBuf(got.b64), LAMBDA plaintext :
               IF plaintext.isNull THEN Replies(Invalid("invalid base64/plaintext"))
               ELSE Awaits("encrypt", plaintext.bytes)))

\* app.post("/wrap"), from the await on: c is the call as it ended
WrapResume(c) ==
  IF c.state = "ok" THEN <<Wrapped(Base64Encode(c.result))>>
  ELSE <<Failed("wrap_failed", DetailOf(c.error))>>

\* app.post("/unwrap"), up to the await
UnwrapEntry(body) ==
  Bound(pickBase64(body, UnwrapKeys, TRUE), LAMBDA got :
    IF ~got.found
    THEN Replies(Missing("missing wrapped_key/ciphertext (base64)", ObjectKeys(body)))
    ELSE Bound(b64urlToBuf(got.b64), LAMBDA ciphertext :
           IF ciphertext.isNull THEN Replies(Invalid("invalid base64/ciphertext"))
           ELSE Awaits("decrypt", ciphertext.bytes)))

\* app.post("/unwrap"), from the await on
UnwrapResume(c) ==
  IF c.state = "ok" THEN <<Unwrapped(Base64Encode(c.result))>>
  ELSE <<Failed("unwrap_failed", DetailOf(c.error))>>

\* A handler that resumes only once the calls of the requests in earlier
\* slots are over as well.
SettledInOrder(r) ==
  /\ call[r].state \in {"ok", "err"}
  /\ \A q \in 1..(r - 1) : call[q].state \notin {"pending", "hung"}

\* The handler resumes once its own call has returned or thrown.
Settled(r) == call[r].state \in {"ok", "err"}

\* Which route a request matches, "" when none does.
RouteOf(req) ==
  IF req.method = "GET" /\ req.path = "/" THEN "root"
  ELSE IF req.method = "GET" /\ req.path = "/status" THEN "status"
  ELSE IF req.method = "GET" /\ req.path = "/.well-known/kacls" THEN "wellknown"
  ELSE IF req.method = "POST" /\ req.path = "/wrap" THEN "wrap"
  ELSE IF req.method = "POST" /\ req.path = "/unwrap" THEN "unwrap"
  ELSE ""

\* req.body as bodyParser.json leaves it when it hands the request on: the
\* parsed value, or {} when there is no JSON body to parse.
ParsedBody(payload) == IF payload.kind = "json" THEN payload.body ELSE JObj(<<>>)

(***************************************************************************)
(* Actions.                                                                *)
(***************************************************************************)
\* Start of the process: without KMS_KEY_RESOURCE it exits.
Boot ==
  /\ proc = "boot"
  /\ KMS_KEY_RESOURCE' = env
  /\ proc' = IF env = "" THEN "exited" ELSE "listening"
  /\ UNCHANGED << arg, out, env, overhead, pc, request, reqBody, headers,
                  responses, ran, call, prior >>

\* A request arrives.
Arrive(r, req) ==
  /\ proc = "listening"
  /\ pc[r] = "idle"
  /\ pc' = [pc EXCEPT ![r] = "cors"]
  /\ request' = [request EXCEPT ![r] = req]
  /\ UNCHANGED << arg, out, env, proc, KMS_KEY_RESOURCE, overhead, reqBody,
                  headers, responses, ran, call, prior >>

\* The CORS middleware.
CorsGate(r) ==
  /\ pc[r] = "cors"
  /\ headers' = [headers EXCEPT ![r] = CorsHeaders(request[r])]
  /\ ran' = [ran EXCEPT ![r] = Append(@, "cors")]
  /\ responses' = [responses EXCEPT
                     ![r] = IF IsPreflight(request[r]) THEN Append(@, Preflight) ELSE @]
  /\ pc' = [pc EXCEPT ![r] = IF IsPreflight(request[r]) THEN "done" ELSE "parse"]
  /\ UNCHANGED << arg, out, env, proc, KMS_KEY_RESOURCE, overhead, request,
                  reqBody, call, prior >>

\* bodyParser.json: a body that is not JSON goes to the framework's error
\* handler (no error middleware is installed), anything else to the routes.
BodyParser(r) ==
  /\ pc[r] = "parse"
  /\ ran' = [ran EXCEPT ![r] = Append(@, "bodyParser")]
  /\ reqBody' = [reqBody EXCEPT
                   ![r] = IF request[r].payload.kind = "malformed" THEN @
                          ELSE ParsedBody(request[r].payload)]
  /\ responses' = [responses EXCEPT
                     ![r] = IF request[r].payload.kind = "malformed"
                            THEN Append(@, ParseFailure) ELSE @]
  /\ pc' = [pc EXCEPT
              ![r] = IF request[r].payload.kind = "malformed" THEN "done" ELSE "route"]
  /\ UNCHANGED << arg, out, env, proc, KMS_KEY_RESOURCE, overhead, request,
                  headers, call, prior >>

\* A handler that answers at once.
Answer(r, name, resp) ==
  /\ pc[r] = "route"
  /\ RouteOf(request[r]) = name
  /\ ran' = [ran EXCEPT ![r] = Append(@, name)]
  /\ responses' = [responses EXCEPT ![r] = Append(@, resp)]
  /\ pc' = [pc EXCEPT ![r] = "done"]
  /\ UNCHANGED << arg, out, env, proc, KMS_KEY_RESOURCE, overhead, request,
                  reqBody, headers, call, prior >>

GetRoot(r) == Answer(r, "root", RootInfo)
GetStatus(r) == Answer(r, "status", StatusInfo(KMS_KEY_RESOURCE))
GetWellKnown(r) == Answer(r, "wellknown", WellKnown)
\* No route matches: the framework answers 404.
NoRoute(r) == Answer(r, "", NotFound)

\* A handler up to its await: it answers, or calls the provider and waits.
Enter(r, name, effect) ==
  /\ pc[r] = "route"
  /\ RouteOf(request[r]) = name
  /\ ran' = [ran EXCEPT ![r] = Append(@, name)]
  /\ responses' = [responses EXCEPT ![r] = @ \o effect.send]
  /\ call' = [call EXCEPT
                ![r] = IF effect.await
                       THEN [@ EXCEPT !.state = "pending", !.op = effect.op,
                                      !.input = effect.input, !.count = @ + 1]
                       ELSE @]
  /\ pc' = [pc EXCEPT ![r] = IF effect.await THEN "await" ELSE "done"]
  /\ UNCHANGED << arg, out, env, proc, KMS_KEY_RESOURCE, overhead, request,
                  reqBody, headers, prior >>

PostWrap(r) ==
  /\ pc[r] = "route" /\ RouteOf(request[r]) = "wrap"
  /\ \E effect \in { WrapEntry(reqBody[r]) } : Enter(r, "wrap", effect)
PostUnwrap(r) ==
  /\ pc[r] = "route" /\ RouteOf(request[r]) = "unwrap"
  /\ \E effect \in { UnwrapEntry(reqBody[r]) } : Enter(r, "unwrap", effect)

\* The provider returns.
KmsReturns(r) ==
  /\ call[r].state = "pending"
  /\ call[r].op = "decrypt" => ProviderAccepts(overhead, call[r].input)
  /\ call' = [call EXCEPT
                ![r] = [@ EXCEPT !.state = "ok",
                                 !.result = IF call[r].op = "encrypt"
                                            THEN ProviderEncrypt(overhead, call[r].input)
                                            ELSE ProviderDecrypt(overhead, call[r].input)]]
  /\ UNCHANGED << arg, out, env, proc, KMS_KEY_RESOURCE, overhead, pc, request,
                  reqBody, headers, responses, ran, prior >>

\* The provider call fails with one of `errors`.
Throws(r, errors) ==
  /\ call[r].state = "pending"
  /\ \E e \in errors :
       call' = [call EXCEPT ![r] = [@ EXCEPT !.state = "err", !.error = e]]
  /\ UNCHANGED << arg, out, env, proc, KMS_KEY_RESOURCE, overhead, pc, request,
                  reqBody, headers, responses, ran, prior >>

KmsThrows(r) == Throws(r, ProviderErrors(KMS_KEY_RESOURCE) \cup {InvalidCiphertext})

\* The provider call will never return.
KmsHangs(r) ==
  /\ call[r].state = "pending"
  /\ call' = [call EXCEPT ![r] = [@ EXCEPT !.state = "hung"]]
  /\ UNCHANGED << arg, out, env, proc, KMS_KEY_RESOURCE, overhead, pc, request,
                  reqBody, headers, responses, ran, prior >>

\* A handler from its await on.
Resume(r, name, send) ==
  /\ pc[r] = "await"
  /\ RouteOf(request[r]) = name
  /\ Settled(r)
  /\ responses' = [responses EXCEPT ![r] = @ \o send]
  /\ pc' = [pc EXCEPT ![r] = "done"]
  /\ UNCHANGED << arg, out, env, proc, KMS_KEY_RESOURCE, overhead, request,
                  reqBody, headers, ran, call, prior >>

WrapDone(r) ==
  /\ pc[r] = "await" /\ RouteOf(request[r]) = "wrap" /\ Settled(r)
  /\ \E send \in { WrapResume(call[r]) } : Resume(r, "wrap", send)
UnwrapDone(r) ==
  /\ pc[r] = "await" /\ RouteOf(request[r]) = "unwrap" /\ Settled(r)
  /\ \E send \in { UnwrapResume(call[r]) } : Resume(r, "unwrap", send)

\* The request is over; the slot is free for the next one.
Release(r, kept) ==
  /\ pc[r] = "done"
  /\ pc' = [pc EXCEPT ![r] = "idle"]
  /\ request' = [request EXCEPT ![r] = NoRequest]
  /\ reqBody' = [reqBody EXCEPT ![r] = Undefined]
  /\ headers' = [headers EXCEPT ![r] = NoHeaders]
  /\ responses' = [responses EXCEPT ![r] = <<>>]
  /\ ran' = [ran EXCEPT ![r] = <<>>]
  /\ call' = [call EXCEPT ![r] = NoCall]
  /\ prior' = kept
  /\ UNCHANGED << arg, out, env, proc, KMS_KEY_RESOURCE, overhead >>

Close(r) == Release(r, prior)

(***************************************************************************)
(* The requests of the main specification: one at a time, every method,    *)
(* path and header, and every flat body of at most MaxMembers members.     *)
(***************************************************************************)
Methods == { "GET", "POST", "OPTIONS", "HEAD" }
Paths == { "/", "/status", "/.well-known/kacls", "/wrap", "/unwrap", "/other" }
Origins == { Absent, Present(""), Present("https://example.com") }
Acrhs == { Absent, Present("x-goog-authassertion") }

\* base64 of what the provider makes of "Hello" with its longest header.
StrWrappedHello ==
  Base64Encode(ProviderEncrypt(MaxOverhead, Base64Decode(StrHello)))

HttpKeys == { "key", "wrapped_key", "reason", "data" }
HttpValues == { JStr(StrHello), JStr(StrOneWord), JStr(StrClientError),
                JStr(StrWrappedHello), JNull }
HttpBodies ==
  UNION { ContainersOver([1..n -> HttpValues], HttpKeys) : n \in 0..MaxMembers }

NoPayload == [kind |-> "none", body |-> Undefined]
Malformed == [kind |-> "malformed", body |-> Undefined]
Json(body) == [kind |-> "json", body |-> body]
Payloads == { NoPayload, Malformed } \cup { Json(b) : b \in HttpBodies }

Requests ==
  [method : {"POST"}, path : Paths, origin : Origins, acrh : Acrhs, payload : Payloads]
  \cup [method : Methods \ {"POST"}, path : Paths, origin : Origins, acrh : Acrhs,
        payload : {NoPayload}]

\* A connection takes the first free slot.
FirstFree(r) == pc[r] = "idle" /\ \A q \in Reqs : q < r => pc[q] # "idle"
NoneInFlight == \A q \in Reqs : pc[q] = "idle"

Send(r) ==
  /\ NoneInFlight /\ FirstFree(r)
  /\ \E req \in Requests : Arrive(r, req)

Init ==
  /\ arg = [body |-> JNull, preferredKeys |-> <<>>, enableRecursive |-> TRUE]
  /\ out = NotCalled
  /\ env \in { "", KeyName }
  /\ proc = "boot"
  /\ KMS_KEY_RESOURCE = ""
  /\ overhead = MaxOverhead
  /\ Quiet

Serve(r) ==
  \/ CorsGate(r) \/ BodyParser(r)
  \/ GetRoot(r) \/ GetStatus(r) \/ GetWellKnown(r) \/ NoRoute(r)
  \/ PostWrap(r) \/ PostUnwrap(r)
  \/ WrapDone(r) \/ UnwrapDone(r)

Provider(r) == KmsReturns(r) \/ KmsThrows(r) \/ KmsHangs(r)

Next ==
  \/ Boot
  \/ \E r \in Reqs : Send(r) \/ Serve(r) \/ Provider(r) \/ Close(r)

Spec == Init /\ [][Next]_vars

(***************************************************************************)
(* What the claims about the service speak of.                             *)
(***************************************************************************)
Went(r, name) == \E i \in 1..Len(ran[r]) : ran[r][i] = name
Sent(r) == { responses[r][i] : i \in 1..Len(responses[r]) }

\* A body with a string `reason` and no base64-looking string in any other
\* field.
IsErrorEnvelope(body) ==
  /\ body.t = "obj"
  /\ Get(body, "reason").t = "str"
  /\ \A i \in 1..Len(body.e) :
       body.e[i].k # "reason" =>
         ~looksLikeB64(body.e[i].v) /\ ~FirstLeaf(body.e[i].v).found

\* C3: a POST /wrap whose body carries a string `reason` and no key material
\* is answered 200 { ok, note: "noop (error envelope)", reason } and the
\* provider's encrypt is not invoked, whatever the reason string is.
C3_ReasonEnvelopeIsNoop ==
  \A r \in Reqs :
    ( /\ RouteOf(request[r]) = "wrap" /\ Went(r, "wrap")
      /\ request[r].payload.kind = "json"
      /\ IsErrorEnvelope(request[r].payload.body) ) =>
      /\ responses[r] = << Noop(Get(request[r].payload.body, "reason")) >>
      /\ call[r].count = 0

\* C4: a POST /wrap or /unwrap whose body is not JSON is handled as if the
\* body were {}: the route handler runs and answers 400 with the
\* missing-candidate response and received_keys [], and the framework's
\* error handler does not answer.
C4_ParseFailureAsEmptyBody ==
  \A r \in Reqs :
    ( /\ pc[r] = "done"
      /\ RouteOf(request[r]) \in {"wrap", "unwrap"}
      /\ request[r].payload.kind = "malformed" ) =>
      /\ Went(r, RouteOf(request[r]))
      /\ responses[r] =
           << Missing(IF RouteOf(request[r]) = "wrap" THEN "missing DEK (base64)"
                      ELSE "missing wrapped_key/ciphertext (base64)", <<>>) >>

\* C5: when the provider call of a wrap (unwrap) request fails, the answer
\* is 500 { error: "wrap_failed" ("unwrap_failed"), detail } with a
\* non-empty detail, and the provider is invoked at most once per request.
C5_ProviderFailure ==
  \A r \in Reqs :
    /\ call[r].count <= 1
    /\ (pc[r] = "done" /\ call[r].state = "err") =>
         /\ Len(responses[r]) = 1
         /\ responses[r][1].status = 500
         /\ responses[r][1].fields = {"error", "detail"}
         /\ responses[r][1].error =
              (IF RouteOf(request[r]) = "wrap" THEN "wrap_failed" ELSE "unwrap_failed")
         /\ responses[r][1].detail # <<>>

\* A request answered after its provider call threw an Error without a
\* message.
C5_Witness ==
  \E r \in Reqs :
    /\ pc[r] = "done" /\ call[r].state = "err" /\ call[r].error.message = <<>>
    /\ Len(responses[r]) = 1 /\ responses[r][1].status = 500

\* The shapes a wrap and an unwrap request may be answered with.
WrapShape(x) ==
  \/ x.status = 200 /\ x.shape = "wrapped" /\ x.fields = {"wrapped_key"}
  \/ x.status = 200 /\ x.shape = "noop" /\ x.fields = {"ok", "note", "reason"}
     /\ x.note = "noop (error envelope)"
  \/ x.status = 400 /\ x.fields = {"error", "received_keys"}
     /\ x.error = "missing DEK (base64)"
  \/ x.status = 400 /\ x.fields = {"error"} /\ x.error = "invalid base64/plaintext"
  \/ x.status = 500 /\ x.fields = {"error", "detail"} /\ x.error = "wrap_failed"
UnwrapShape(x) ==
  \/ x.status = 200 /\ x.shape = "unwrapped" /\ x.fields = {"key"}
  \/ x.status = 400 /\ x.fields = {"error", "received_keys"}
     /\ x.error = "missing wrapped_key/ciphertext (base64)"
  \/ x.status = 400 /\ x.fields = {"error"} /\ x.error = "invalid base64/ciphertext"
  \/ x.status = 500 /\ x.fields = {"error", "detail"} /\ x.error = "unwrap_failed"

\* C7: a wrap or unwrap request that reached its handler has no response
\* while its provider call is outstanding and exactly one once the handler
\* has ended, of one of the defined shapes; { wrapped_key } and { key } are
\* sent only after the provider call of that request succeeded.
C7_ExactlyOneDefinedResponse ==
  \A r \in Reqs :
    LET name == RouteOf(request[r])
    IN  (name \in {"wrap", "unwrap"} /\ Went(r, name)) =>
          /\ pc[r] = "await" => responses[r] = <<>>
          /\ pc[r] = "done" => Len(responses[r]) = 1
          /\ \A x \in Sent(r) :
               /\ IF name = "wrap" THEN WrapShape(x) ELSE UnwrapShape(x)
               /\ x.shape \in {"wrapped", "unwrapped"} =>
                    /\ call[r].state = "ok"
                    /\ call[r].op = (IF name = "wrap" THEN "encrypt" ELSE "decrypt")
                    /\ x.b64 = Base64Encode(call[r].result)

\* A wrap request answered 200 { wrapped_key } after its call returned.
C7_Witness ==
  \E r \in Reqs :
    /\ pc[r] = "done" /\ RouteOf(request[r]) = "wrap"
    /\ call[r].state = "ok"
    /\ Len(responses[r]) = 1 /\ responses[r][1].shape = "wrapped"

\* What C8 says of a request, with the Access-Control-Allow-Origin value it
\* names.
PreflightContract(r, allowOrigin) ==
  IF request[r].method \in {"OPTIONS", "HEAD"}
  THEN (pc[r] = "done") =>
         /\ responses[r] = << Preflight >>
         /\ responses[r][1].status = 204 /\ responses[r][1].fields = {}
         /\ headers[r].allowOrigin = allowOrigin
         /\ ran[r] = << "cors" >>
         /\ reqBody[r] = Undefined
         /\ call[r].count = 0
  ELSE (pc[r] \notin {"idle", "cors"}) =>
         /\ headers[r].set
         /\ headers[r].allowOrigin = allowOrigin
         /\ headers[r].allowCredentials = "true"
         /\ headers[r].vary = "Origin"
         /\ headers[r].allowMethods = "GET,POST,OPTIONS,HEAD"
         /\ headers[r].maxAge = "86400"
         /\ ran[r] # <<>> /\ ran[r][1] = "cors"
         /\ Preflight \notin Sent(r)
         /\ pc[r] = "parse" => responses[r] = <<>>

\* C8 (as stated): an OPTIONS or HEAD request, on any path, is answered 204
\* with an empty body and Access-Control-Allow-Origin equal to the Origin
\* header when present and to the default origin otherwise, without
\* reaching the body parser, a route handler or the provider; any other
\* request goes on with the CORS headers set.
C8_PreflightEchoesOrigin ==
  \A r \in Reqs :
    PreflightContract(r, IF request[r].origin.present THEN request[r].origin.value
                         ELSE DefaultOrigin)

\* C8 (amended): the same, with Access-Control-Allow-Origin equal to the
\* Origin header when it is present and not empty.
C8_PreflightEchoesNonEmptyOrigin ==
  \A r \in Reqs :
    PreflightContract(r, IF request[r].origin.present /\ request[r].origin.value # ""
                         THEN request[r].origin.value ELSE DefaultOrigin)

\* An OPTIONS /wrap with an Origin header, answered.
C8_Witness ==
  \E r \in Reqs :
    /\ pc[r] = "done" /\ request[r].method = "OPTIONS" /\ request[r].path = "/wrap"
    /\ request[r].origin = Present("https://example.com")
    /\ headers[r].allowOrigin = "https://example.com"
    /\ responses[r] = << Preflight >>

\* Whether a response body holds the key-resource identifier.
Mentions(x) ==
  \/ x.key_resource = KMS_KEY_RESOURCE
  \/ \E i \in 1..Len(x.detail) : x.detail[i] = KMS_KEY_RESOURCE

KeyAlphabet == { "Q", "_" }
KeyStrings ==
  { StrHello, StrUrlSafe }
  \cup UNION { UNION { { body \o [i \in 1..(n - j) |-> "="] :
                          body \in [1..j -> KeyAlphabet] } : j \in 1..n } :
               n \in MinB64Len..MaxKeyLen }

Post(path, body) ==
  [method |-> "POST", path |-> path, origin |-> Absent, acrh |-> Absent,
   payload |-> Json(body)]
WrapOf(K) == Post("/wrap", JObj(<< Member("key", JStr(K)) >>))
UnwrapOf(W) == Post("/unwrap", JObj(<< Member("wrapped_key", JStr(W)) >>))

SendWrap(r) ==
  /\ NoneInFlight /\ FirstFree(r)
  /\ ~prior.has
  /\ \E K \in KeyStrings : Arrive(r, WrapOf(K))

SendUnwrap(r) ==
  /\ NoneInFlight /\ FirstFree(r)
  /\ prior.has
  /\ Arrive(r, UnwrapOf(prior.wrapped))

\* The client reads the answer: it keeps K and the wrapped_key of a wrap
\* that succeeded, and forgets them after the unwrap.
Keep(r) ==
  Release(r, IF /\ RouteOf(request[r]) = "wrap"
                /\ Len(responses[r]) = 1 /\ responses[r][1].shape = "wrapped"
             THEN [has |-> TRUE,
                   key |-> request[r].payload.body.e[1].v.s,
                   wrapped |-> responses[r][1].b64]
             ELSE NoPrior)

RoundTripInit ==
  /\ arg = [body |-> JNull, preferredKeys |-> <<>>, enableRecursive |-> TRUE]
  /\ out = NotCalled
  /\ env = KeyName
  /\ proc = "boot"
  /\ KMS_KEY_RESOURCE = ""
  /\ overhead \in 0..MaxOverhead
  /\ Quiet

RoundTripNext ==
  \/ Boot
  \/ \E r \in Reqs :
       \/ SendWrap(r) \/ SendUnwrap(r) \/ Keep(r)
       \/ CorsGate(r) \/ BodyParser(r)
       \/ PostWrap(r) \/ PostUnwrap(r) \/ WrapDone(r) \/ UnwrapDone(r)
       \/ Provider(r)

RoundTripSpec == RoundTripInit /\ [][RoundTripNext]_vars

\* The unwrap of what the last wrap returned, ended without a provider
\* failure.
UnwrapOfPrior(r) ==
  /\ pc[r] = "done"
  /\ prior.has
  /\ request[r] = UnwrapOf(prior.wrapped)
  /\ call[r].state # "err"

\* Standard alphabet, a multiple of four characters, at most two "=", and
\* no bit set that the padding cuts off.
IsCanonical(s) ==
  LET n == Cardinality({ i \in 1..Len(s) : s[i] # "=" })
      p == Len(s) - n
  IN  /\ \A i \in 1..n : s[i] \in StdChars
      /\ \A i \in (n + 1)..Len(s) : s[i] = "="
      /\ Len(s) % 4 = 0
      /\ p \in {0, 1, 2}
      /\ p = 1 => CharVal(s[n]) % 4 = 0
      /\ p = 2 => CharVal(s[n]) % 16 = 0

\* C6 (as stated): the unwrap of the wrapped_key that a wrap of { key: K }
\* returned is answered 200 { key: K }.
C6_RoundTripReturnsKey ==
  \A r \in Reqs : UnwrapOfPrior(r) => responses[r] = << Unwrapped(prior.key) >>

\* C6 (amended): when the wrapped_key W has at least eight characters, the
\* unwrap is answered 200 { key: K' } with K' the padded standard-alphabet
\* base64 of the bytes K decodes to, and K' = K exactly when K is canonical
\* base64; a shorter W is answered 400, missing wrapped_key.
C6_RoundTripReturnsCanonicalKey ==
  \A r \in Reqs :
    UnwrapOfPrior(r) =>
      IF Len(prior.wrapped) >= MinB64Len
      THEN /\ Len(responses[r]) = 1
           /\ responses[r][1].status = 200
           /\ responses[r][1].fields = {"key"}
           /\ Base64Decode(responses[r][1].b64) = Base64Decode(prior.key)
           /\ IsCanonical(responses[r][1].b64)
           /\ (responses[r][1].b64 = prior.key) <=> IsCanonical(prior.key)
      ELSE responses[r] =
             << Missing("missing wrapped_key/ciphertext (base64)", <<"wrapped_key">>) >>

\* The scenario of the specification: { key: "SGVsbG8=" } wrapped, then
\* unwrapped to { key: "SGVsbG8=" }.
C6_Witness ==
  \E r \in Reqs :
    /\ UnwrapOfPrior(r)
    /\ prior.key = StrHello
    /\ responses[r] = << Unwrapped(StrHello) >>

(***************************************************************************)
(* Requests in flight at once.  Every callback that is ready is run, and   *)
(* a provider call returns, throws or never ends.                          *)
(***************************************************************************)
FewRequests ==
  { WrapOf(StrHello), UnwrapOf(StrWrappedHello),
    [method |-> "GET", path |-> "/status", origin |-> Absent, acrh |-> Absent,
     payload |-> NoPayload] }

SendAny(r) ==
  /\ FirstFree(r)
  /\ \E req \in FewRequests : Arrive(r, req)

ServeFew(r) ==
  \/ CorsGate(r) \/ BodyParser(r) \/ GetStatus(r)
  \/ PostWrap(r) \/ PostUnwrap(r) \/ WrapDone(r) \/ UnwrapDone(r)

FairInit ==
  /\ arg = [body |-> JNull, preferredKeys |-> <<>>, enableRecursive |-> TRUE]
  /\ out = NotCalled
  /\ env = KeyName
  /\ proc = "boot"
  /\ KMS_KEY_RESOURCE = ""
  /\ overhead = MaxOverhead
  /\ Quiet

\* The provider returns, throws (one error stands for all of them here) or
\* hangs.
ProviderFew(r) == KmsReturns(r) \/ Throws(r, {InvalidCiphertext}) \/ KmsHangs(r)

FairNext ==
  \/ Boot
  \/ \E r \in Reqs : SendAny(r) \/ ServeFew(r) \/ ProviderFew(r) \/ Close(r)

FairSpec ==
  /\ FairInit /\ [][FairNext]_vars
  /\ WF_vars(Boot)
  /\ \A r \in Reqs : WF_vars(ServeFew(r)) /\ WF_vars(ProviderFew(r))

\* What a request is answered, from its own request and its own provider
\* call alone.
OutcomeOf(req, c) ==
  LET name == RouteOf(req)
      entry == IF name = "wrap" THEN WrapEntry(ParsedBody(req.payload))
               ELSE UnwrapEntry(ParsedBody(req.payload))
  IN  IF name = "status" THEN << StatusInfo(KeyName) >>
      ELSE IF ~entry.await THEN entry.send
      ELSE IF name = "wrap" THEN WrapResume(c)
      ELSE UnwrapResume(c)

Hung(r) == call[r].state = "hung"
InFlight(r) == pc[r] \notin {"idle", "done"}

\* C10: a request whose provider call never returns stays pending, without
\* any response, for good; every other request in flight reaches its
\* response all the same; and what a request is answered depends on its own
\* body and its own provider result only.
C10_HungCallBlocksOnlyItself ==
  /\ [](\A r \in Reqs : Hung(r) => (pc[r] = "await" /\ responses[r] = <<>>))
  /\ [][\A r \in Reqs : Hung(r) => Hung(r)']_vars
  /\ \A r \in Reqs : (InFlight(r) /\ ~Hung(r)) ~> (pc[r] = "done" \/ Hung(r))
  /\ [](\A r \in Reqs : pc[r] = "done" => responses[r] = OutcomeOf(request[r], call[r]))

\* A request is answered while the call of a request in an earlier slot
\* hangs.
C10_Witness ==
  \E r, q \in Reqs :
    /\ r < q
    /\ Hung(r) /\ pc[r] = "await" /\ responses[r] = <<>>
    /\ pc[q] = "done" /\ call[q].state = "ok" /\ Len(responses[q]) = 1

====
